---- MODULE Spec2Model ----
(***************************************************************************)
(* Model of the blobsender settlement protocol:                            *)
(*   - the on-chain Escrow ledger (contracts/src/Escrow.sol);              *)
(*   - the off-chain POST /api/create-blob handler (create-blob/route.ts)  *)
(*     with its processing lock, quote lookup and escrow verification.     *)
(*                                                                         *)
(* Spec      : the ledger alone, every external function called by every   *)
(*             address, with block time advancing.                         *)
(* SpecOrch  : request handlers interleaved with the chain.                *)
(***************************************************************************)
EXTENDS Integers, FiniteSets, Sequences, TLC

(***************************************************************************)
(* Bounds of the model                                                     *)
(***************************************************************************)
\* wei held at the start by the user account
UserFunds == 3
\* block.timestamp of the deployment block
StartTime == 1

(***************************************************************************)
(* The ledger: contracts/src/Escrow.sol                                    *)
(***************************************************************************)
\* Escrow.sol:15  uint64 constant WITHDRAW_DELAY = 1 hours
WITHDRAW_DELAY == 3600

\* the zero address, the "absent" sentinel of EscrowData.sender
ZeroAddr == 0
\* accounts: 1 deploys the contract (owner), 2 is the constructor's _worker,
\* 3 is a user, 4 is a contract account whose receive function rejects
\* payments, so a call{value: v} to it returns success = false
Addr == 1..4
NoReceive == {4}
\* the accounts setWorker and setOwner are called with
NewWorkers == {2, 4}
NewOwners == {1, 3}
\* escrow ids (bytes32 keys of the mapping)
Ids == {1, 2}

\* the block times explored: the deployment block, the last second before
\* an escrow of the deployment block may be withdrawn, and the first second
\* at which it may
BlockTimes == {StartTime, StartTime + WITHDRAW_DELAY - 1, StartTime + WITHDRAW_DELAY}

\* Escrow.sol:6  the width of EscrowData.value: uint128(msg.value) keeps
\* msg.value modulo 2^128.  TLC's integers are 32 bits wide, so the field
\* is modelled VALUE_BITS wide and the amounts are scaled with it.
VALUE_BITS == 4
ValueMod == 2 ^ VALUE_BITS

\* msg.value of the createEscrow calls explored: nothing, and two prices
Amounts == {0, 1, 2}

\* Escrow.sol:5-10  struct EscrowData; the default value of a mapping slot
EmptyEscrow == [value |-> 0, timestamp |-> 0, fulfilled |-> FALSE, sender |-> ZeroAddr]

VARIABLES
    escrows,    \* Escrow.sol:12  mapping(bytes32 => EscrowData)
    owner,      \* Escrow.sol:13
    worker,     \* Escrow.sol:14
    held,       \* address(this).balance
    balances,   \* the balance of every account
    now,        \* block.timestamp (seconds); also the server's clock
    last,       \* the last call of the ledger: its function and how it ended
    receipts,   \* ids whose createEscrow transaction has a receipt, status 1
    hs,         \* route.ts:189  one record per running POST handler
    leases,     \* processing-escrows.ts:11  processingEscrows
    quotes,     \* price-cache.ts:15-18  CacheFile.quotes
    lastCleanup, \* price-cache.ts:17  CacheFile.lastCleanup
    calls,      \* the calls of the price cache in flight and their locals
    issued,     \* the quotes whose storePriceQuote has returned
    rpcHealthCache, \* part_012:15  rpcHealthCache
    rpcs,       \* the calls of getWorkingRpcProvider in flight and their locals
    failedProbes, \* per endpoint, its failed probes since its last successful one
    frame,      \* the call of the ledger whose value transfer is running
    verifs      \* part_011:138  the call of verifyEscrowSecurity in flight

ledgerVars == <<escrows, owner, worker, held, balances, now, last>>
cacheVars == <<lastCleanup, calls, issued>>
rpcVars == <<rpcHealthCache, rpcs, failedProbes>>
orchVars == <<receipts, hs, leases, quotes, cacheVars, rpcVars, frame, verifs>>
vars == <<escrows, owner, worker, held, balances, now, last, receipts, hs, leases, quotes,
          lastCleanup, calls, issued, rpcHealthCache, rpcs, failedProbes, frame, verifs>>

\* the outcome of a call: "ok", a custom error of Escrow.sol:17-22, or
\* "TransferFailed" for a failed require(success)
Call(op, result) == [op |-> op, result |-> result]

\* Escrow.sol:42,55,61  (bool success, ) = to.call{value: v}("")
\* the call succeeds when the ledger holds v and the recipient accepts it
CanPay(to, v) == v <= held /\ to \notin NoReceive

\* a reverted call changes nothing but the record of the call
Revert(call) ==
    /\ last' = call
    /\ UNCHANGED <<escrows, owner, worker, held, balances, now>>

\* Escrow.sol:24-27  constructor; the user account holds UserFunds
LedgerInit ==
    /\ escrows = [i \in Ids |-> EmptyEscrow]
    /\ owner = 1
    /\ worker = 2
    /\ held = 0
    /\ balances = [a \in Addr |-> IF a = 3 THEN UserFunds ELSE 0]
    /\ now = StartTime
    /\ last = Call("deploy", "ok")

\* mutant: the id of a fulfilled record may be funded again
createRejects_FulfilledReused(e, amount) ==
    (e.sender # ZeroAddr /\ ~e.fulfilled) \/ amount = 0

\* mutant: the check for an existing record forgotten
createRejects_Overwrites(e, amount) == amount = 0

\* mutant: the zero-amount check forgotten
createRejects_NoZeroCheck(e, amount) == e.sender # ZeroAddr

\* Escrow.sol:31  if (e.sender != address(0) || msg.value == 0) revert
createRejects(e, amount) == e.sender # ZeroAddr \/ amount = 0

\* Escrow.sol:29-35  (a caller cannot send more than it holds)
createEscrow(caller, id, amount) ==
    /\ amount <= balances[caller]
    /\ LET e == escrows[id] IN
       IF createRejects(e, amount)
       THEN Revert(Call("createEscrow", "AlreadyExists"))
       ELSE /\ escrows' = [escrows EXCEPT ![id] =
                              [e EXCEPT !.sender = caller,
                                        !.value = amount % ValueMod,
                                        !.timestamp = now]]
            /\ held' = held + amount
            /\ balances' = [balances EXCEPT ![caller] = @ - amount]
            /\ last' = Call("createEscrow", "ok")
            /\ UNCHANGED <<owner, worker, now>>

\* mutant: the owner may fulfill as well
notWorker_OwnerToo(caller) == caller # worker /\ caller # owner

\* Escrow.sol:38  if (msg.sender != worker) revert NotWorker()
notWorker(caller) == caller # worker

\* mutant: the fulfilled flag is not looked at
fulfillRejects_NoFlag(e) == e.sender = ZeroAddr

\* Escrow.sol:40  if (e.sender == address(0) || e.fulfilled) revert
fulfillRejects(e) == e.sender = ZeroAddr \/ e.fulfilled

\* Escrow.sol:37-44
fulfill(caller, id) ==
    LET e == escrows[id] IN
    IF notWorker(caller)
    THEN Revert(Call("fulfill", "NotWorker"))
    ELSE IF fulfillRejects(e)
    THEN Revert(Call("fulfill", "AlreadyFulfilled"))
    ELSE IF ~CanPay(worker, e.value)
    THEN Revert(Call("fulfill", "TransferFailed"))
    ELSE /\ escrows' = [escrows EXCEPT ![id].fulfilled = TRUE]
         /\ held' = held - e.value
         /\ balances' = [balances EXCEPT ![worker] = @ + e.value]
         /\ last' = Call("fulfill", "ok")
         /\ UNCHANGED <<owner, worker, now>>

\* mutant: the delay is compared with <=, one second too strict
TooEarlyAt_Inclusive(e, t) == t <= e.timestamp + WITHDRAW_DELAY

\* mutant: the delay is one second too short
TooEarlyAt_OneShort(e, t) == t + 1 < e.timestamp + WITHDRAW_DELAY

\* Escrow.sol:51  block.timestamp < e.timestamp + WITHDRAW_DELAY
\* (block timestamps stay far below 2^64 - WITHDRAW_DELAY, so the unchecked
\* uint64 addition does not wrap)
TooEarlyAt(e, t) == t < e.timestamp + WITHDRAW_DELAY

\* mutant: only the absent record is refused
notSender_AbsentOnly(caller, e) == e.sender = ZeroAddr

\* Escrow.sol:48  if (msg.sender != e.sender || e.sender == address(0)) revert
notSender(caller, e) == caller # e.sender \/ e.sender = ZeroAddr

\* Escrow.sol:46-57
withdraw(caller, id) ==
    LET e == escrows[id] IN
    IF notSender(caller, e)
    THEN Revert(Call("withdraw", "NotSender"))
    ELSE IF e.fulfilled
    THEN Revert(Call("withdraw", "AlreadyFulfilled"))
    ELSE IF TooEarlyAt(e, now)
    THEN Revert(Call("withdraw", "TooEarly"))
    ELSE IF ~CanPay(caller, e.value)
    THEN Revert(Call("withdraw", "TransferFailed"))
    ELSE /\ escrows' = [escrows EXCEPT ![id] = EmptyEscrow]
         /\ held' = held - e.value
         /\ balances' = [balances EXCEPT ![caller] = @ + e.value]
         /\ last' = Call("withdraw", "ok")
         /\ UNCHANGED <<owner, worker, now>>

\* mutant: the worker passes the owner check as well
notOwner_WorkerToo(caller) == caller # owner /\ caller # worker

\* mutant: the owner check forgotten
notOwner_Forgotten(caller) == FALSE

\* Escrow.sol:60,66,71  if (msg.sender != owner) revert NotOwner()
notOwner(caller) == caller # owner

\* Escrow.sol:59-63
emergencyWithdraw(caller) ==
    IF notOwner(caller)
    THEN Revert(Call("emergencyWithdraw", "NotOwner"))
    ELSE IF ~CanPay(owner, held)
    THEN Revert(Call("emergencyWithdraw", "TransferFailed"))
    ELSE /\ held' = 0
         /\ balances' = [balances EXCEPT ![owner] = @ + held]
         /\ last' = Call("emergencyWithdraw", "ok")
         /\ UNCHANGED <<escrows, owner, worker, now>>

\* Escrow.sol:65-68
setWorker(caller, w) ==
    IF notOwner(caller)
    THEN Revert(Call("setWorker", "NotOwner"))
    ELSE /\ worker' = w
         /\ last' = Call("setWorker", "ok")
         /\ UNCHANGED <<escrows, owner, held, balances, now>>

\* Escrow.sol:70-73
setOwner(caller, o) ==
    IF notOwner(caller)
    THEN Revert(Call("setOwner", "NotOwner"))
    ELSE /\ owner' = o
         /\ last' = Call("setOwner", "ok")
         /\ UNCHANGED <<escrows, worker, held, balances, now>>

\* a later block: block.timestamp grows to t
Tick(t) ==
    /\ t > now
    /\ now' = t
    /\ UNCHANGED <<escrows, owner, worker, held, balances, last>>

(***************************************************************************)
(* The server: POST /api/create-blob (frontend/app/api/create-blob)        *)
(***************************************************************************)
\* processing-escrows.ts:12  PROCESSING_TIMEOUT_MS = 5 * 60 * 1000
PROCESSING_TIMEOUT_MS == 300000
\* price-cache.ts:20  QUOTE_EXPIRY_MS = 5 * 60 * 1000
QUOTE_EXPIRY_MS == 300000

\* Date.now(), in milliseconds
DateNow == now * 1000

\* undefined or null, for a field that otherwise holds a number
Undef == 0 - 1
\* route.ts:199  escrowId = 'unknown'
NoId == 0
\* a request without quoteId
NoQuoteId == 0
\* route.ts:302  the server's wallet; it is the ledger's worker at deployment
WorkerWallet == 2

\* the handlers that may run at the same time; a handler that has answered
\* serves the next request
Handlers == {1, 2}
\* the account that funds escrows
Payers == {3}
\* the fields of the requests posted: the payer's address or another one
ReqUsers == {3, 4}
ReqIds == {1}
QuoteIds == {1}
\* the price of the quotes issued
Prices == {2}
\* the amounts the user funds an escrow with: one below the price, the price
FundAmounts == {1, 2}
\* the server's clock: the first second at which a lease or a quote of the
\* start has expired, and the first at which an escrow of the start may be
\* withdrawn
ServerTimes ==
    {StartTime + PROCESSING_TIMEOUT_MS \div 1000 + 1,
     StartTime + WITHDRAW_DELAY}

\* the body of a request: route.ts:206-221, types CreateBlobRequest.
\* escrowTxHash names the transaction that funded escrowId.
Requests ==
    [text : BOOLEAN, userAddress : ReqUsers, escrowTxHash : BOOLEAN,
     escrowId : ReqIds \cup {NoId}, quoteId : QuoteIds \cup {NoQuoteId}]

\* validation.ts:75-118
validateRequestInput(body) ==
    /\ body.text
    /\ body.userAddress # ZeroAddr
    /\ body.escrowTxHash
    /\ body.escrowId # NoId

\* route.ts:20-55  the fields of CreateBlobErrorResponse the properties read
buildErrorResponse(canWithdraw, expectedValue, actualValue) ==
    [kind |-> "error", canWithdraw |-> canWithdraw,
     expectedValue |-> expectedValue, actualValue |-> actualValue]

\* route.ts:60-90
buildSuccessResponse ==
    [kind |-> "success", canWithdraw |-> FALSE,
     expectedValue |-> Undef, actualValue |-> Undef]

\* route.ts:246-249,278-281  NextResponse.json({ error }, { status: 400 })
PlainError ==
    [kind |-> "plain", canWithdraw |-> FALSE,
     expectedValue |-> Undef, actualValue |-> Undef]

NoResp ==
    [kind |-> "none", canWithdraw |-> FALSE,
     expectedValue |-> Undef, actualValue |-> Undef]

\* part_011:34-39  the escrowData a verification carries; none read yet
NoSnap == [value |-> Undef, fulfilled |-> FALSE]

\* route.ts:195-200  the locals of a handler and where it stands:
\*   pc       the await it is suspended at
\*   site     which of the handler's verifications or receipt waits is running
\*   locked   it is between markEscrowProcessing (387) and the finally of 581
\*   tx       the settlement transaction it sent
IdleHandler ==
    [pc |-> "idle", site |-> "-", id |-> NoId, user |-> ZeroAddr,
     quoteId |-> NoQuoteId, expected |-> Undef, snap |-> NoSnap,
     locked |-> FALSE, tx |-> "none", resp |-> NoResp]

\* price-cache.ts:59  an id without a quote
NoQuote == [priceWei |-> Undef, timestamp |-> Undef]

\* price-cache.ts:21  CLEANUP_INTERVAL_MS = 60 * 1000
CLEANUP_INTERVAL_MS == 60000
\* the quote ids issued and looked up under SpecQuote
CacheIds == {1, 2}
\* the calls of storePriceQuote and getPriceQuote that may run at the same time
CacheCalls == {1, 2}
\* the prices quoted under SpecQuote
QuotePrices == {1, 2}
\* the server's clock under SpecQuote: the first second at which the cleanup
\* runs, the last at which a quote of the start is valid, and the first at
\* which it has expired
CacheTimes ==
    {StartTime + CLEANUP_INTERVAL_MS \div 1000 + 1,
     StartTime + QUOTE_EXPIRY_MS \div 1000,
     StartTime + QUOTE_EXPIRY_MS \div 1000 + 1}

\* price-cache.ts:59  { quotes: {}, lastCleanup }
NoCache == [quotes |-> [q \in CacheIds |-> NoQuote], lastCleanup |-> Undef]

\* a call of the cache that is not running
NoCall ==
    [pc |-> "idle", op |-> "-", quoteId |-> NoQuoteId, cache |-> NoCache,
     result |-> Undef]

\* no cache file yet, no call running
CacheInit ==
    /\ lastCleanup = Undef
    /\ calls = [c \in CacheCalls |-> NoCall]
    /\ issued = [q \in CacheIds |-> NoQuote]

\* the endpoints of the pool, in the order of the rpcUrls argument
RpcPool == <<1, 2, 3>>
RpcUrls == {RpcPool[k] : k \in DOMAIN RpcPool}
\* the calls of getWorkingRpcProvider that may run at the same time
RpcCalls == {1, 2}

\* part_012:75-79  the health of an endpoint never probed
NoHealth == [lastSuccess |-> Undef, consecutiveFailures |-> 0]

\* a call of getWorkingRpcProvider that is not running
NoRpc == [pc |-> "idle", sorted |-> <<>>, errors |-> <<>>, url |-> 0]

\* part_012:15,72-81  no endpoint probed yet, no call running
RpcInit ==
    /\ rpcHealthCache = [u \in RpcUrls |-> NoHealth]
    /\ rpcs = [c \in RpcCalls |-> NoRpc]
    /\ failedProbes = [u \in RpcUrls |-> 0]

\* no call of verifyEscrowSecurity is running
NoVerif ==
    [pc |-> "idle", escrowId |-> NoId, userAddress |-> ZeroAddr,
     expectedValue |-> Undef, read1 |-> <<>>, read2 |-> <<>>,
     result |-> [valid |-> FALSE, error |-> "-", actualValue |-> Undef]]

\* no call of the ledger is in the middle of a value transfer
NoFrame == [op |-> "-", to |-> ZeroAddr, id |-> 0, saved |-> <<>>]

OrchInit ==
    /\ receipts = {}
    /\ hs = [h \in Handlers |-> IdleHandler]
    /\ leases = [i \in ReqIds |-> Undef]
    /\ quotes = [q \in QuoteIds |-> NoQuote]
    /\ CacheInit
    /\ RpcInit
    /\ frame = NoFrame
    /\ verifs = NoVerif

\* processing-escrows.ts:17-25
cleanupExpired(L) ==
    [i \in DOMAIN L |->
        IF L[i] # Undef /\ DateNow - L[i] > PROCESSING_TIMEOUT_MS
        THEN Undef ELSE L[i]]

\* processing-escrows.ts:30-33  (the map becomes cleanupExpired(L))
isEscrowProcessing(L, id) == cleanupExpired(L)[id] # Undef

\* processing-escrows.ts:38-45
markEscrowProcessing(L, id) == [cleanupExpired(L) EXCEPT ![id] = DateNow]

\* processing-escrows.ts:50-53
markEscrowComplete(L, id) == [L EXCEPT ![id] = Undef]

\* price-cache.ts:149-150  age > QUOTE_EXPIRY_MS
QuoteExpired(q) == DateNow - q.timestamp > QUOTE_EXPIRY_MS

\* price-cache.ts:133-163  the price returned, null for none
getPriceQuote(Q, quoteId) ==
    IF Q[quoteId] = NoQuote \/ QuoteExpired(Q[quoteId])
    THEN Undef ELSE Q[quoteId].priceWei

\* price-cache.ts:114-127  (price-cache.ts:168 a quote id is drawn at
\* random: it is stored once)
storePriceQuote(quoteId, priceWei) ==
    /\ quotes[quoteId] = NoQuote
    /\ quotes' = [quotes EXCEPT ![quoteId] =
                     [priceWei |-> priceWei, timestamp |-> DateNow]]
    /\ UNCHANGED <<ledgerVars, receipts, hs, leases, cacheVars, rpcVars, frame, verifs>>

\* an address written with other letter case than the ledger returns it:
\* the address plus CaseOffset
CaseOffset == 8
\* String.prototype.toLowerCase on an address
toLowerCase(address) == address % CaseOffset

\* mutant: the payer is compared as written
verifyEscrowSender_AsWritten(sender, expectedSender) == sender = expectedSender

\* part_011:53-64  verifyEscrowSender
verifyEscrowSender(sender, expectedSender) ==
    toLowerCase(sender) = toLowerCase(expectedSender)

\* part_011:17-48,53-94  steps 1 to 4 of verifyEscrowSecurity on the record
\* e returned by contract.escrows(escrowId); up is FALSE when the read throws
verifyEscrowExists(e, userAddress, up) ==
    IF ~up THEN "Failed to read escrow data"
    ELSE IF e.sender = ZeroAddr THEN "Escrow does not exist"
    ELSE IF ~verifyEscrowSender(e.sender, userAddress) THEN "Escrow sender mismatch"
    ELSE IF e.fulfilled THEN "Escrow already fulfilled"
    ELSE IF e.value = 0 THEN "Escrow has zero value"
    ELSE "ok"

\* part_011:100-132  step 5, on a second read of the record
verifyEscrowBalance(e, expectedValue, up) ==
    IF ~up THEN [valid |-> FALSE, actualValue |-> Undef,
                 error |-> "Failed to verify escrow balance"]
    ELSE IF e.value # expectedValue
    THEN [valid |-> FALSE, actualValue |-> e.value, error |-> "Price mismatch"]
    ELSE [valid |-> TRUE, actualValue |-> e.value, error |-> "ok"]

\* the expectedValue a verification is called with: 0n at route.ts:262,350,
\* 399,436; expectedValue at 473,492,534; expectedValue or 0n at 608
ExpectedArg(r) ==
    IF r.site \in {"initial", "security", "poll"} THEN r.expected
    ELSE IF r.site = "catch" /\ r.expected # Undef THEN r.expected
    ELSE 0

\* a return statement of the handler: the response, then the finally blocks
\* (route.ts:581-584 inside the lock, 648-654 always) release the lease
Respond(h, r, resp, L) ==
    /\ hs' = [hs EXCEPT ![h] = [r EXCEPT !.pc = "done", !.site = "-",
                                         !.snap = NoSnap, !.locked = FALSE,
                                         !.resp = resp]]
    /\ leases' = IF r.id # NoId THEN markEscrowComplete(L, r.id) ELSE L

\* an exception thrown inside the try of route.ts:389: the finally of 581
\* releases the lease, the catch of 585 starts its verification (600-609)
Throw(h, r) ==
    /\ hs' = [hs EXCEPT ![h] = [r EXCEPT !.pc = "read1", !.site = "catch",
                                         !.snap = NoSnap, !.locked = FALSE]]
    /\ leases' = markEscrowComplete(leases, r.id)

\* the handler goes on to its next await
Goto(h, r, pc, site) ==
    /\ hs' = [hs EXCEPT ![h] = [r EXCEPT !.pc = pc, !.site = site]]
    /\ UNCHANGED leases

\* route.ts:189-387  from the arrival of the request to its first await
\* after the body: validation, the duplicate check and the lock.  A request
\* is served by the first free handler.
Post(h, body) ==
    /\ hs[h].pc = "idle"
    /\ \A g \in Handlers : g < h => hs[g].pc # "idle"
    /\ LET r == [IdleHandler EXCEPT !.id = body.escrowId,
                                    !.user = body.userAddress] IN
       IF ~validateRequestInput(body)
       THEN IF body.escrowId # NoId /\ body.escrowTxHash
            THEN Goto(h, r, "read1", "invalid")
            ELSE Respond(h, r, PlainError, leases)
       ELSE IF isEscrowProcessing(leases, body.escrowId)
       THEN /\ hs' = [hs EXCEPT ![h] = [r EXCEPT !.pc = "receipt", !.site = "dup"]]
            /\ leases' = cleanupExpired(leases)
       ELSE /\ hs' = [hs EXCEPT ![h] =
                         [r EXCEPT !.locked = TRUE,
                                   !.quoteId = body.quoteId,
                                   !.pc = IF body.quoteId = NoQuoteId
                                          THEN "receipt" ELSE "quote",
                                   !.site = IF body.quoteId = NoQuoteId
                                            THEN "noquote" ELSE "-"]]
            /\ leases' = markEscrowProcessing(leases, body.escrowId)
    /\ UNCHANGED <<ledgerVars, receipts, quotes, cacheVars, rpcVars, frame, verifs>>

\* route.ts:425-462  await getPriceQuote(quoteId); an expired quote is
\* deleted from the cache (price-cache.ts:150-153)
GetQuote(h) ==
    /\ hs[h].pc = "quote"
    /\ LET r == hs[h]
           price == getPriceQuote(quotes, r.quoteId) IN
       /\ quotes' = [quotes EXCEPT ![r.quoteId] =
                        IF price = Undef THEN NoQuote ELSE @]
       /\ IF price = Undef
          THEN Goto(h, r, "receipt", "expired")
          ELSE Goto(h, [r EXCEPT !.expected = price], "receipt", "main")
    /\ UNCHANGED <<ledgerVars, receipts, cacheVars, rpcVars, frame, verifs>>

\* route.ts:95-118 and part_011:211-236  waitForUserEscrowTransaction at
\* route.ts:349,398,435,466: the receipt is returned when the node answers
\* and the funding transaction succeeded, else the wait throws
Receipt(h) ==
    /\ hs[h].pc = "receipt"
    /\ \E up \in BOOLEAN :
         LET r == hs[h] IN
         IF up /\ r.id \in receipts
         THEN Goto(h, r, "read1", IF r.site = "main" THEN "initial" ELSE r.site)
         ELSE IF r.site = "main"
         THEN Throw(h, r)
         ELSE Respond(h, r, buildErrorResponse(FALSE, Undef, Undef), leases)
    /\ UNCHANGED <<ledgerVars, receipts, quotes, cacheVars, rpcVars, frame, verifs>>

\* what the handler does with the result of verifyEscrowSecurity at site
\* r.site: route.ts:263-281, 351-383, 400-421, 437-458, 476-485, 495-506,
\* 536-550, 610-647
Verified(h, r, valid, actualValue) ==
    CASE r.site = "invalid" ->
           IF valid
           THEN Respond(h, r, buildErrorResponse(TRUE, Undef, r.snap.value), leases)
           ELSE Respond(h, r, PlainError, leases)
      [] r.site \in {"dup", "noquote", "expired"} ->
           IF valid /\ r.site = "dup" /\ r.snap.fulfilled
           THEN Respond(h, r, buildSuccessResponse, leases)
           ELSE IF valid
           THEN Respond(h, r, buildErrorResponse(TRUE, Undef, r.snap.value), leases)
           ELSE Respond(h, r, buildErrorResponse(FALSE, Undef, Undef), leases)
      [] r.site = "initial" ->
           IF valid /\ r.snap.fulfilled
           THEN Respond(h, r, buildSuccessResponse, leases)
           ELSE Goto(h, [r EXCEPT !.snap = NoSnap], "read1", "security")
      [] r.site = "security" ->
           IF ~valid
           THEN Respond(h, r, buildErrorResponse(TRUE, r.expected, actualValue), leases)
           ELSE Goto(h, [r EXCEPT !.snap = NoSnap], "send", "-")
      [] r.site = "poll" ->
           IF valid /\ r.snap.fulfilled
           THEN Respond(h, r, buildSuccessResponse, leases)
           ELSE Goto(h, [r EXCEPT !.snap = NoSnap], "poll", "-")
      [] r.site = "catch" ->
           IF valid
           THEN Respond(h, r, buildErrorResponse(~r.snap.fulfilled,
                                                 r.expected, r.snap.value), leases)
           ELSE Respond(h, r, buildErrorResponse(FALSE, r.expected, Undef), leases)

\* part_011:149-188  verifyEscrowSecurity, its first read of the record and
\* the checks of steps 1 to 4
Read1(h) ==
    /\ hs[h].pc = "read1"
    /\ \E up \in BOOLEAN :
         LET r == hs[h]
             e == escrows[r.id]
             check == verifyEscrowExists(e, r.user, up) IN
         IF check = "ok"
         THEN Goto(h, [r EXCEPT !.snap = [value |-> e.value, fulfilled |-> e.fulfilled]],
                   "read2", r.site)
         ELSE Verified(h, [r EXCEPT !.snap = IF up /\ e.sender # ZeroAddr
                                             THEN [value |-> e.value,
                                                   fulfilled |-> e.fulfilled]
                                             ELSE NoSnap],
                       FALSE, Undef)
    /\ UNCHANGED <<ledgerVars, receipts, quotes, cacheVars, rpcVars, frame, verifs>>

\* part_011:190-205  verifyEscrowSecurity, step 5 and its result
Read2(h) ==
    /\ hs[h].pc = "read2"
    /\ \E up \in BOOLEAN :
         LET r == hs[h]
             bal == verifyEscrowBalance(escrows[r.id], ExpectedArg(r), up) IN
         Verified(h, r, bal.valid, bal.actualValue)
    /\ UNCHANGED <<ledgerVars, receipts, quotes, cacheVars, rpcVars, frame, verifs>>

\* route.ts:124-161,513-524 and blob.ts:180-195  createAndSendBlob up to
\* sendBlobTransaction: it throws before the node has the transaction, it
\* returns the pending transaction, or the node answers "already known"
Send(h) ==
    /\ hs[h].pc = "send"
    /\ \E outcome \in {"failed", "sent", "known"} :
         LET r == hs[h] IN
         CASE outcome = "failed" -> Throw(h, r)
           [] outcome = "sent" -> Goto(h, [r EXCEPT !.tx = "pending"], "wait", "-")
           [] outcome = "known" -> Goto(h, [r EXCEPT !.tx = "pending"], "read1", "poll")
    /\ UNCHANGED <<ledgerVars, receipts, quotes, cacheVars, rpcVars, frame, verifs>>

\* the settlement transaction of handler h is mined: fulfill(escrowId) sent
\* by the server's wallet
Mine(h) ==
    /\ hs[h].tx = "pending"
    /\ fulfill(WorkerWallet, hs[h].id)
    /\ hs' = [hs EXCEPT ![h].tx = IF last'.result = "ok" THEN "ok" ELSE "reverted"]
    /\ UNCHANGED <<receipts, leases, quotes, cacheVars, rpcVars, frame, verifs>>

\* route.ts:166-184,571-577  blobTx.wait() returns the receipt of the mined
\* transaction: success, or the throw of a reverted one
Wait(h) ==
    /\ hs[h].pc = "wait"
    /\ hs[h].tx \in {"ok", "reverted"}
    /\ IF hs[h].tx = "ok"
       THEN Respond(h, hs[h], buildSuccessResponse, leases)
       ELSE Throw(h, hs[h])
    /\ UNCHANGED <<ledgerVars, receipts, quotes, cacheVars, rpcVars, frame, verifs>>

\* route.ts:167-171  blobTx.wait() fails MAX_RETRIES times while the
\* transaction is pending: retryOperation throws
WaitFails(h) ==
    /\ hs[h].pc = "wait"
    /\ hs[h].tx = "pending"
    /\ Throw(h, hs[h])
    /\ UNCHANGED <<ledgerVars, receipts, quotes, cacheVars, rpcVars, frame, verifs>>

\* route.ts:531-563  the loop of the "already known" branch after a check:
\* another check 3 seconds later, or the 60 seconds are over
Poll(h) ==
    /\ hs[h].pc = "poll"
    /\ \E again \in BOOLEAN :
         IF again
         THEN Goto(h, hs[h], "read1", "poll")
         ELSE Respond(h, hs[h], buildErrorResponse(TRUE, hs[h].expected, Undef), leases)
    /\ UNCHANGED <<ledgerVars, receipts, quotes, cacheVars, rpcVars, frame, verifs>>

\* the response has been sent and the handler's transaction is settled: the
\* server takes the next request
Recycle(h) ==
    /\ hs[h].pc = "done"
    /\ hs[h].tx # "pending"
    /\ hs' = [hs EXCEPT ![h] = IdleHandler]
    /\ UNCHANGED <<ledgerVars, receipts, leases, quotes, cacheVars, rpcVars, frame, verifs>>

\* the user funds an escrow: createEscrow, and the receipt of the
\* transaction (status 1 when it did not revert)
Fund(c, id, amount) ==
    /\ createEscrow(c, id, amount)
    /\ receipts' = IF last'.result = "ok" THEN receipts \cup {id} ELSE receipts
    /\ UNCHANGED <<hs, leases, quotes, cacheVars, rpcVars, frame, verifs>>

(***************************************************************************)
(* The quote cache file (frontend/app/api/lib/price-cache.ts), with the    *)
(* awaits of its functions: a call reads the file, then writes it          *)
(***************************************************************************)
\* price-cache.ts:49-64  the file's content; an empty cache when there is
\* no file
readCache ==
    [quotes |-> quotes,
     lastCleanup |-> IF lastCleanup = Undef THEN DateNow ELSE lastCleanup]

\* price-cache.ts:69-78
writeCache(cache) ==
    /\ quotes' = cache.quotes
    /\ lastCleanup' = cache.lastCleanup

\* price-cache.ts:83-109
cleanupExpiredQuotes(cache) ==
    IF ~(DateNow - cache.lastCleanup > CLEANUP_INTERVAL_MS)
    THEN cache
    ELSE [quotes |-> [q \in DOMAIN cache.quotes |->
                         IF cache.quotes[q] # NoQuote /\ QuoteExpired(cache.quotes[q])
                         THEN NoQuote ELSE cache.quotes[q]],
          lastCleanup |-> DateNow]

\* price-cache.ts:114-120 and blob-price GET (layout.tsx:135-136):
\* storePriceQuote(generateQuoteId(), priceWei) up to its await of
\* writeCache: the file is read and the quote is put into the copy.  A
\* quote id is drawn at random: it is stored once.
StoreRead(c, quoteId, priceWei) ==
    /\ calls[c].pc = "idle"
    /\ issued[quoteId] = NoQuote
    /\ \A d \in CacheCalls : ~(calls[d].op = "store" /\ calls[d].quoteId = quoteId)
    /\ LET cache == readCache IN
       calls' = [calls EXCEPT ![c] =
                    [pc |-> "write", op |-> "store", quoteId |-> quoteId,
                     cache |-> [cache EXCEPT !.quotes[quoteId] =
                                   [priceWei |-> priceWei, timestamp |-> DateNow]],
                     result |-> Undef]]
    /\ UNCHANGED <<ledgerVars, receipts, hs, leases, quotes, lastCleanup, issued,
                   rpcVars, frame, verifs>>

\* price-cache.ts:121-126  writeCache(cache) replaces the file and the call
\* returns, or the write fails and the call throws
StoreWrite(c) ==
    /\ calls[c].pc = "write"
    /\ calls[c].op = "store"
    /\ \E ok \in BOOLEAN :
         IF ok
         THEN /\ writeCache(calls[c].cache)
              /\ issued' = [issued EXCEPT ![calls[c].quoteId] =
                                calls[c].cache.quotes[calls[c].quoteId]]
         ELSE UNCHANGED <<quotes, lastCleanup, issued>>
    /\ calls' = [calls EXCEPT ![c] = NoCall]
    /\ UNCHANGED <<ledgerVars, receipts, hs, leases, rpcVars, frame, verifs>>

\* price-cache.ts:133-158  getPriceQuote(quoteId) up to its return or its
\* await of writeCache: the file is read, cleaned when the cleanup is due,
\* and the quote is looked up; a quote found and not expired is returned,
\* else the copy, without the expired quote, is written back
GetRead(c, quoteId) ==
    /\ calls[c].pc = "idle"
    /\ LET cache == cleanupExpiredQuotes(readCache)
           price == getPriceQuote(cache.quotes, quoteId) IN
       calls' = [calls EXCEPT ![c] =
                    IF price # Undef
                    THEN [pc |-> "done", op |-> "get", quoteId |-> quoteId,
                          cache |-> NoCache, result |-> price]
                    ELSE [pc |-> "write", op |-> "get", quoteId |-> quoteId,
                          cache |-> [cache EXCEPT !.quotes[quoteId] = NoQuote],
                          result |-> Undef]]
    /\ UNCHANGED <<ledgerVars, receipts, hs, leases, quotes, lastCleanup, issued,
                   rpcVars, frame, verifs>>

\* price-cache.ts:144-145,153-154,159-162  the write of the cleaned copy;
\* null is returned, also when the write fails
GetWrite(c) ==
    /\ calls[c].pc = "write"
    /\ calls[c].op = "get"
    /\ \E ok \in BOOLEAN :
         IF ok THEN writeCache(calls[c].cache)
         ELSE UNCHANGED <<quotes, lastCleanup>>
    /\ calls' = [calls EXCEPT ![c] = [@ EXCEPT !.pc = "done", !.cache = NoCache]]
    /\ UNCHANGED <<ledgerVars, receipts, hs, leases, issued, rpcVars, frame, verifs>>

\* the caller has the result of getPriceQuote
GetReturn(c) ==
    /\ calls[c].pc = "done"
    /\ calls' = [calls EXCEPT ![c] = NoCall]
    /\ UNCHANGED <<ledgerVars, receipts, hs, leases, quotes, lastCleanup, issued,
                   rpcVars, frame, verifs>>

(***************************************************************************)
(* verifyEscrowSecurity (part_011) called on its own, while the ledger     *)
(* goes on                                                                 *)
(***************************************************************************)
\* the userAddress arguments: the payer as the ledger writes it, the payer
\* in other letter case, another account
VerifyUsers == {3, 3 + CaseOffset, 2}
\* the expectedValue arguments: 0n and the two amounts funded
VerifyValues == {0, 1, 2}

\* part_011:138-188  the call up to the result of steps 1 to 4: the first
\* read of the record (up is FALSE when it throws)
VerifyRead1(escrowId, userAddress, expectedValue) ==
    /\ verifs.pc = "idle"
    /\ \E up \in BOOLEAN :
         LET e == escrows[escrowId]
             check == verifyEscrowExists(e, userAddress, up)
             v == [NoVerif EXCEPT !.escrowId = escrowId,
                                  !.userAddress = userAddress,
                                  !.expectedValue = expectedValue,
                                  !.read1 = <<up, e>>] IN
         verifs' = IF check = "ok"
                   THEN [v EXCEPT !.pc = "read2"]
                   ELSE [v EXCEPT !.pc = "done",
                                  !.result = [valid |-> FALSE, error |-> check,
                                              actualValue |-> Undef]]
    /\ UNCHANGED <<ledgerVars, receipts, hs, leases, quotes, cacheVars, rpcVars, frame>>

\* part_011:190-205  step 5, the second read of the record, and the result
VerifyRead2 ==
    /\ verifs.pc = "read2"
    /\ \E up \in BOOLEAN :
         LET e == escrows[verifs.escrowId]
             bal == verifyEscrowBalance(e, verifs.expectedValue, up) IN
         verifs' = [verifs EXCEPT !.pc = "done", !.read2 = <<up, e>>,
                                  !.result = [valid |-> bal.valid, error |-> bal.error,
                                              actualValue |-> bal.actualValue]]
    /\ UNCHANGED <<ledgerVars, receipts, hs, leases, quotes, cacheVars, rpcVars, frame>>

\* the caller has the result
VerifyEnd ==
    /\ verifs.pc = "done"
    /\ verifs' = NoVerif
    /\ UNCHANGED <<ledgerVars, receipts, hs, leases, quotes, cacheVars, rpcVars, frame>>

(***************************************************************************)
(* RPC failover (part_012): getWorkingRpcProvider and its health cache     *)
(***************************************************************************)
\* the most consecutive failures explored for an endpoint
MaxFailures == 2
\* the server's clock under SpecRpc
RpcTimes == {StartTime + 1}

\* mutant: the endpoints are ordered by their failures alone
compareHealth_FailuresOnly(A, B) == A.consecutiveFailures - B.consecutiveFailures

\* part_012:84-97  the comparator of the sort: negative when the endpoint
\* with health A goes first.  lastSuccess is null or a time, never 0.
compareHealth(A, B) ==
    IF A.lastSuccess # Undef /\ B.lastSuccess = Undef THEN 0 - 1
    ELSE IF A.lastSuccess = Undef /\ B.lastSuccess # Undef THEN 1
    ELSE IF A.lastSuccess # Undef /\ B.lastSuccess # Undef
         THEN B.lastSuccess - A.lastSuccess
    ELSE A.consecutiveFailures - B.consecutiveFailures

\* Array.prototype.sort is stable: url is put behind every element that
\* does not compare greater than it
RECURSIVE insertSorted(_, _, _)
insertSorted(H, sorted, url) ==
    IF sorted = <<>> THEN <<url>>
    ELSE IF compareHealth(H[Head(sorted)], H[url]) <= 0
         THEN <<Head(sorted)>> \o insertSorted(H, Tail(sorted), url)
         ELSE <<url>> \o sorted

\* part_012:84  [...rpcUrls].sort(...)
RECURSIVE sortByHealth(_, _)
sortByHealth(H, urls) ==
    IF urls = <<>> THEN <<>>
    ELSE insertSorted(H, sortByHealth(H, SubSeq(urls, 1, Len(urls) - 1)),
                      urls[Len(urls)])

\* mutant: a successful probe keeps the failure count
healthAfterSuccess_KeepsCount(health) == [health EXCEPT !.lastSuccess = DateNow]

\* part_012:117-118
healthAfterSuccess(health) ==
    [health EXCEPT !.lastSuccess = DateNow, !.consecutiveFailures = 0]

\* part_012:123
healthAfterFailure(health) == [health EXCEPT !.consecutiveFailures = @ + 1]

\* part_012:47-110  a call with the pool as rpcUrls, up to its first probe:
\* the endpoints are sorted by the health recorded at this moment
RpcBegin(c) ==
    /\ rpcs[c].pc = "idle"
    /\ rpcs' = [rpcs EXCEPT ![c] =
                  [pc |-> "probe", sorted |-> sortByHealth(rpcHealthCache, RpcPool),
                   errors |-> <<>>, url |-> 0]]
    /\ UNCHANGED <<ledgerVars, receipts, hs, leases, quotes, cacheVars,
                   rpcHealthCache, failedProbes, frame, verifs>>

\* part_012:23-37,102-133  testRpc of the next endpoint resolves: it is
\* working and the call returns it, or it failed and the call goes on to the
\* next endpoint, or throws after the last one (135-139)
RpcProbe(c) ==
    /\ rpcs[c].pc = "probe"
    /\ LET r == rpcs[c]
           url == r.sorted[Len(r.errors) + 1]
           health == rpcHealthCache[url] IN
       \E isWorking \in BOOLEAN :
         IF isWorking
         THEN /\ rpcHealthCache' = [rpcHealthCache EXCEPT ![url] = healthAfterSuccess(health)]
              /\ failedProbes' = [failedProbes EXCEPT ![url] = 0]
              /\ rpcs' = [rpcs EXCEPT ![c] = [r EXCEPT !.pc = "returned", !.url = url]]
         ELSE /\ health.consecutiveFailures < MaxFailures
              /\ rpcHealthCache' = [rpcHealthCache EXCEPT ![url] = healthAfterFailure(health)]
              /\ failedProbes' = [failedProbes EXCEPT ![url] = @ + 1]
              /\ LET errors == Append(r.errors, [url |-> url, error |-> "Health check failed"]) IN
                 rpcs' = [rpcs EXCEPT ![c] =
                            [r EXCEPT !.errors = errors,
                                      !.pc = IF Len(errors) = Len(r.sorted)
                                             THEN "threw" ELSE "probe"]]
    /\ UNCHANGED <<ledgerVars, receipts, hs, leases, quotes, cacheVars, frame, verifs>>

\* the caller has the provider or the error
RpcEnd(c) ==
    /\ rpcs[c].pc \in {"returned", "threw"}
    /\ rpcs' = [rpcs EXCEPT ![c] = NoRpc]
    /\ UNCHANGED <<ledgerVars, receipts, hs, leases, quotes, cacheVars,
                   rpcHealthCache, failedProbes, frame, verifs>>

(***************************************************************************)
(* Spec: the ledger alone (no request is ever posted)                      *)
(***************************************************************************)
Init == LedgerInit /\ OrchInit

Next ==
    \/ \E c \in Addr, i \in Ids, a \in Amounts :
          createEscrow(c, i, a) /\ UNCHANGED orchVars
    \/ \E c \in Addr, i \in Ids : fulfill(c, i) /\ UNCHANGED orchVars
    \/ \E c \in Addr, i \in Ids : withdraw(c, i) /\ UNCHANGED orchVars
    \/ \E c \in Addr : emergencyWithdraw(c) /\ UNCHANGED orchVars
    \/ \E c \in Addr, w \in NewWorkers : setWorker(c, w) /\ UNCHANGED orchVars
    \/ \E c \in Addr, o \in NewOwners : setOwner(c, o) /\ UNCHANGED orchVars
    \/ \E t \in BlockTimes : Tick(t) /\ UNCHANGED orchVars

Spec == Init /\ [][Next]_vars

(***************************************************************************)
(* SpecRoles: the ledger under role rotation.  The worker is replaced by   *)
(* accounts that accept payments and by one that does not; time stands     *)
(* still, so no record is withdrawn.                                       *)
(***************************************************************************)
\* the accounts setWorker is called with
RoleWorkers == {1, 2, 4}
\* msg.value of the createEscrow calls
RoleAmounts == {0, 1}

NextRoles ==
    \/ \E c \in Addr, i \in Ids, a \in RoleAmounts :
          createEscrow(c, i, a) /\ UNCHANGED orchVars
    \/ \E c \in Addr, i \in Ids : fulfill(c, i) /\ UNCHANGED orchVars
    \/ \E c \in Addr : emergencyWithdraw(c) /\ UNCHANGED orchVars
    \/ \E c \in Addr, w \in RoleWorkers : setWorker(c, w) /\ UNCHANGED orchVars
    \/ \E c \in Addr, o \in NewOwners : setOwner(c, o) /\ UNCHANGED orchVars

SpecRoles == Init /\ [][NextRoles]_vars

(***************************************************************************)
(* SpecWide: the ledger with a user whose funds exceed what the value      *)
(* field of a record can hold                                              *)
(***************************************************************************)
\* the user's funds: one more than 2^VALUE_BITS
WideFunds == ValueMod + 1
\* msg.value of the createEscrow calls: a price, the first amount that does
\* not fit in the value field, and the next one
WideAmounts == {1, ValueMod, ValueMod + 1}

InitWide ==
    /\ escrows = [i \in Ids |-> EmptyEscrow]
    /\ owner = 1
    /\ worker = 2
    /\ held = 0
    /\ balances = [a \in Addr |-> IF a = 3 THEN WideFunds ELSE 0]
    /\ now = StartTime
    /\ last = Call("deploy", "ok")
    /\ OrchInit

NextWide ==
    \/ \E c \in Addr, i \in Ids, a \in WideAmounts :
          createEscrow(c, i, a) /\ UNCHANGED orchVars
    \/ \E c \in Addr, i \in Ids : fulfill(c, i) /\ UNCHANGED orchVars
    \/ \E c \in Addr, i \in Ids : withdraw(c, i) /\ UNCHANGED orchVars
    \/ \E c \in Addr : emergencyWithdraw(c) /\ UNCHANGED orchVars
    \/ \E t \in BlockTimes : Tick(t) /\ UNCHANGED orchVars

SpecWide == InitWide /\ [][NextWide]_vars

(***************************************************************************)
(* SpecPaid: the ledger without emergencyWithdraw, with amounts that fit   *)
(* the value field                                                         *)
(***************************************************************************)
NextPaid ==
    \/ \E c \in Addr, i \in Ids, a \in Amounts :
          createEscrow(c, i, a) /\ UNCHANGED orchVars
    \/ \E c \in Addr, i \in Ids : fulfill(c, i) /\ UNCHANGED orchVars
    \/ \E c \in Addr, i \in Ids : withdraw(c, i) /\ UNCHANGED orchVars
    \/ \E c \in Addr, w \in NewWorkers : setWorker(c, w) /\ UNCHANGED orchVars
    \/ \E c \in Addr, o \in NewOwners : setOwner(c, o) /\ UNCHANGED orchVars
    \/ \E t \in BlockTimes : Tick(t) /\ UNCHANGED orchVars

SpecPaid == Init /\ [][NextPaid]_vars

(***************************************************************************)
(* SpecReenter: the ledger with recipients that are contracts.  During the *)
(* value transfer of fulfill or withdraw the recipient's code runs: it may *)
(* call the ledger again, and it returns or reverts.                       *)
(***************************************************************************)
\* the accounts whose receive function calls the ledger
Reentrant == {2, 3}
\* msg.value of the createEscrow calls
ReenterAmounts == {1}

\* Escrow.sol:41-42, 54-55  fulfill or withdraw has written the record and
\* the call{value: ...} has handed the value and the control to the
\* recipient; saved is the state the transaction started in
OpenFrame(op, to, id) ==
    /\ frame = NoFrame
    /\ to \in Reentrant
    /\ last'.result = "ok"
    /\ frame' = [op |-> op, to |-> to, id |-> id,
                 saved |-> <<escrows, held, balances>>]
    /\ UNCHANGED <<receipts, hs, leases, quotes, cacheVars, rpcVars, verifs>>

\* the recipient's code calls the ledger; the transfers of these calls are
\* accepted without further calls
Reenter(id) ==
    /\ frame # NoFrame
    /\ \/ fulfill(frame.to, id)
       \/ withdraw(frame.to, id)
       \/ \E a \in ReenterAmounts : createEscrow(frame.to, id, a)
    /\ UNCHANGED orchVars

\* the recipient's code returns: success is true, the call of the ledger
\* ends
TransferReturns ==
    /\ frame # NoFrame
    /\ frame' = NoFrame
    /\ last' = Call(frame.op, "ok")
    /\ UNCHANGED <<escrows, owner, worker, held, balances, now>>
    /\ UNCHANGED <<receipts, hs, leases, quotes, cacheVars, rpcVars, verifs>>

\* Escrow.sol:43,56  the recipient's code reverts: success is false and
\* require(success) reverts the transaction, with everything done in it
TransferReverts ==
    /\ frame # NoFrame
    /\ frame' = NoFrame
    /\ escrows' = frame.saved[1]
    /\ held' = frame.saved[2]
    /\ balances' = frame.saved[3]
    /\ last' = Call(frame.op, "TransferFailed")
    /\ UNCHANGED <<owner, worker, now>>
    /\ UNCHANGED <<receipts, hs, leases, quotes, cacheVars, rpcVars, verifs>>

NextReenter ==
    \/ \E c \in Addr, i \in Ids, a \in ReenterAmounts :
          frame = NoFrame /\ createEscrow(c, i, a) /\ UNCHANGED orchVars
    \/ \E c \in Addr, i \in Ids :
          fulfill(c, i) /\ (OpenFrame("fulfill", worker, i)
                             \/ (frame = NoFrame /\ UNCHANGED orchVars))
    \/ \E c \in Addr, i \in Ids :
          withdraw(c, i) /\ (OpenFrame("withdraw", c, i)
                              \/ (frame = NoFrame /\ UNCHANGED orchVars))
    \/ \E i \in Ids : Reenter(i)
    \/ TransferReturns
    \/ TransferReverts
    \/ \E t \in BlockTimes : frame = NoFrame /\ Tick(t) /\ UNCHANGED orchVars

SpecReenter == Init /\ [][NextReenter]_vars

(***************************************************************************)
(* SpecOrch: the handlers, the quote store and the chain.  Of the user's   *)
(* calls of the ledger the ones that succeed are taken: a reverted call    *)
(* changes nothing the server can read.                                    *)
(***************************************************************************)
InitOrch == LedgerInit /\ OrchInit

NextOrch ==
    \/ \E h \in Handlers, body \in Requests : Post(h, body)
    \/ \E h \in Handlers : GetQuote(h)
    \/ \E h \in Handlers : Receipt(h)
    \/ \E h \in Handlers : Read1(h)
    \/ \E h \in Handlers : Read2(h)
    \/ \E h \in Handlers : Send(h)
    \/ \E h \in Handlers : Mine(h)
    \/ \E h \in Handlers : Wait(h)
    \/ \E h \in Handlers : WaitFails(h)
    \/ \E h \in Handlers : Poll(h)
    \/ \E h \in Handlers : Recycle(h)
    \/ \E q \in QuoteIds, p \in Prices : storePriceQuote(q, p)
    \/ \E c \in Payers, i \in ReqIds, a \in FundAmounts :
          Fund(c, i, a) /\ last'.result = "ok"
    \/ \E c \in Payers, i \in ReqIds :
          withdraw(c, i) /\ last'.result = "ok" /\ UNCHANGED orchVars
    \/ \E t \in ServerTimes : Tick(t) /\ UNCHANGED orchVars

SpecOrch == InitOrch /\ [][NextOrch]_vars

\* route.ts:531-563  the loop of the "already known" branch ends: its
\* condition Date.now() - pollStart < 60000 is false after 60 seconds
PollEnds(h) == Poll(h) /\ hs'[h].pc = "done"

\* The event loop runs a handler on when the promise it awaits has settled.
\* The reads of the node and of the quote cache settle (they return or
\* throw), sendBlobTransaction settles, blobTx.wait() settles once the
\* transaction is mined, and the poll loop ends with its 60 seconds.  The
\* chain alone decides whether a transaction is mined (Mine), and
\* blobTx.wait(), called without a timeout (route.ts:168), need not reject
\* while the transaction is pending (WaitFails): no fairness for these.
HandlerFairness ==
    \A h \in Handlers :
        /\ WF_vars(GetQuote(h))
        /\ WF_vars(Receipt(h))
        /\ WF_vars(Read1(h))
        /\ WF_vars(Read2(h))
        /\ WF_vars(Send(h))
        /\ WF_vars(Wait(h))
        /\ WF_vars(Poll(h))
        /\ SF_vars(PollEnds(h))

SpecLive == InitOrch /\ [][NextOrch]_vars /\ HandlerFairness

(***************************************************************************)
(* SpecVerify: verifyEscrowSecurity beside the calls of the payer and the  *)
(* worker                                                                  *)
(***************************************************************************)
NextVerify ==
    \/ \E i \in ReqIds, u \in VerifyUsers, x \in VerifyValues : VerifyRead1(i, u, x)
    \/ VerifyRead2
    \/ VerifyEnd
    \/ \E i \in ReqIds, a \in FundAmounts :
          createEscrow(3, i, a) /\ last'.result = "ok" /\ UNCHANGED orchVars
    \/ \E i \in ReqIds : fulfill(worker, i) /\ last'.result = "ok" /\ UNCHANGED orchVars
    \/ \E i \in ReqIds : withdraw(3, i) /\ last'.result = "ok" /\ UNCHANGED orchVars
    \/ \E t \in ServerTimes : Tick(t) /\ UNCHANGED orchVars

SpecVerify == Init /\ [][NextVerify]_vars

(***************************************************************************)
(* SpecRpc: concurrent calls of getWorkingRpcProvider                      *)
(***************************************************************************)
NextRpc ==
    \/ \E c \in RpcCalls : RpcBegin(c)
    \/ \E c \in RpcCalls : RpcProbe(c)
    \/ \E c \in RpcCalls : RpcEnd(c)
    \/ \E t \in RpcTimes : Tick(t) /\ UNCHANGED orchVars

SpecRpc == Init /\ [][NextRpc]_vars

(***************************************************************************)
(* SpecQuote: the quote cache file under concurrent GET /api/blob-price    *)
(* and POST /api/create-blob requests                                      *)
(***************************************************************************)
InitQuote ==
    /\ LedgerInit
    /\ receipts = {}
    /\ hs = [h \in Handlers |-> IdleHandler]
    /\ leases = [i \in ReqIds |-> Undef]
    /\ quotes = NoCache.quotes
    /\ CacheInit
    /\ RpcInit
    /\ frame = NoFrame
    /\ verifs = NoVerif

NextQuote ==
    \/ \E c \in CacheCalls, q \in CacheIds, p \in QuotePrices : StoreRead(c, q, p)
    \/ \E c \in CacheCalls : StoreWrite(c)
    \/ \E c \in CacheCalls, q \in CacheIds : GetRead(c, q)
    \/ \E c \in CacheCalls : GetWrite(c)
    \/ \E c \in CacheCalls : GetReturn(c)
    \/ \E t \in CacheTimes : Tick(t) /\ UNCHANGED orchVars

SpecQuote == InitQuote /\ [][NextQuote]_vars



(***************************************************************************)
(* Properties of the ledger, checked under Spec                            *)
(***************************************************************************)
\* a record that is funded and not yet fulfilled
Funded(e) == e.sender # ZeroAddr /\ ~e.fulfilled

\* a call that left the records and every balance as they were
NothingMoved == UNCHANGED <<escrows, held, balances, owner, worker>>

\* C1 (as claimed): in every reachable state, withdraw(id) by the payer of a
\* funded, unfulfilled record at now >= createdAt + 1 hour succeeds, resets
\* the record to Empty and pays exactly the record's value to the payer.
C1_WithdrawAlwaysSucceeds ==
    [][last'.op = "withdraw" => \A c \in Addr, i \in Ids :
         ( /\ withdraw(c, i)
           /\ Funded(escrows[i])
           /\ c = escrows[i].sender
           /\ now >= escrows[i].timestamp + WITHDRAW_DELAY )
         => ( /\ last'.result = "ok"
              /\ escrows'[i] = EmptyEscrow
              /\ balances'[c] = balances[c] + escrows[i].value )]_vars

\* C1 (amended): the same withdraw succeeds, empties the record and pays
\* exactly its value to the payer whenever the ledger still holds that value
\* and the payer accepts the payment; otherwise it reverts on the failed
\* transfer and the record stays funded.
C1_WithdrawSucceedsIfSolvent ==
    [][last'.op = "withdraw" => \A c \in Addr, i \in Ids :
         ( /\ withdraw(c, i)
           /\ Funded(escrows[i])
           /\ c = escrows[i].sender
           /\ now >= escrows[i].timestamp + WITHDRAW_DELAY )
         => IF escrows[i].value <= held /\ c \notin NoReceive
            THEN /\ last' = Call("withdraw", "ok")
                 /\ escrows' = [escrows EXCEPT ![i] = EmptyEscrow]
                 /\ balances' = [balances EXCEPT ![c] = @ + escrows[i].value]
                 /\ held' = held - escrows[i].value
            ELSE /\ last' = Call("withdraw", "TransferFailed")
                 /\ NothingMoved]_vars

\* C1 witness: a payer has withdrawn after the delay
C1_Witness ==
    /\ last = Call("withdraw", "ok")
    /\ now >= StartTime + WITHDRAW_DELAY

\* C2 (as claimed): fulfill(id) by the worker on a funded, unfulfilled record
\* sets fulfilled, leaves payer, value and createdAt alone and pays exactly
\* the value to the worker; on a fulfilled or absent record it reverts with
\* AlreadyFulfilled.
C2_FulfillPaysOnce ==
    [][last'.op = "fulfill" => \A c \in Addr, i \in Ids :
         (fulfill(c, i) /\ c = worker)
         => IF Funded(escrows[i])
            THEN /\ last'.result = "ok"
                 /\ escrows' = [escrows EXCEPT ![i].fulfilled = TRUE]
                 /\ balances'[worker] = balances[worker] + escrows[i].value
            ELSE /\ last'.result = "AlreadyFulfilled"
                 /\ NothingMoved]_vars

\* C2 (amended): as claimed, provided the ledger still holds the record's
\* value and the worker accepts the payment; otherwise the call reverts on
\* the failed transfer and changes nothing.  A fulfilled record stays
\* fulfilled, so it pays at most once.
C2_FulfillPaysOnceIfSolvent ==
    [][\A c \in Addr, i \in Ids :
         /\ (last'.op = "fulfill" /\ fulfill(c, i) /\ c = worker)
            => IF ~Funded(escrows[i])
               THEN /\ last' = Call("fulfill", "AlreadyFulfilled")
                    /\ NothingMoved
               ELSE IF escrows[i].value <= held /\ worker \notin NoReceive
               THEN /\ last' = Call("fulfill", "ok")
                    /\ escrows' = [escrows EXCEPT ![i].fulfilled = TRUE]
                    /\ balances' = [balances EXCEPT ![worker] = @ + escrows[i].value]
                    /\ held' = held - escrows[i].value
               ELSE /\ last' = Call("fulfill", "TransferFailed")
                    /\ NothingMoved
         /\ escrows[i].fulfilled => escrows'[i].fulfilled]_vars

\* C2 witness: a fulfill call has been refused when every record was
\* already fulfilled (each had been paid to the worker before)
C2_Witness ==
    /\ last = Call("fulfill", "AlreadyFulfilled")
    /\ \A i \in Ids : escrows[i].fulfilled
    /\ balances[worker] > 0

\* C7: createEscrow(id) reverts with AlreadyExists whenever the record has a
\* non-zero payer or the amount sent is 0, for every caller and id, and the
\* failed call leaves the record and the ledger balance unchanged.
C7_CreateRejected ==
    [][last'.op = "createEscrow" => \A c \in Addr, i \in Ids, a \in Amounts :
         (createEscrow(c, i, a) /\ (escrows[i].sender # ZeroAddr \/ a = 0))
         => (last' = Call("createEscrow", "AlreadyExists") /\ NothingMoved)]_vars

\* C7 witness: a createEscrow call has been refused when every id was taken
C7_Witness ==
    /\ last = Call("createEscrow", "AlreadyExists")
    /\ \A i \in Ids : escrows[i].sender # ZeroAddr

\* C8: withdraw(id) by the payer of a funded, unfulfilled record at
\* now < createdAt + 3600 reverts with TooEarly and the record stays as it is.
C8_WithdrawTooEarly ==
    [][last'.op = "withdraw" => \A c \in Addr, i \in Ids :
         ( /\ withdraw(c, i)
           /\ Funded(escrows[i])
           /\ c = escrows[i].sender
           /\ now < escrows[i].timestamp + WITHDRAW_DELAY )
         => (last' = Call("withdraw", "TooEarly") /\ NothingMoved)]_vars

\* C8 witness: a withdraw has been refused as too early in the last second
\* before the delay of a deployment-time escrow ends
C8_Witness ==
    /\ last = Call("withdraw", "TooEarly")
    /\ now = StartTime + WITHDRAW_DELAY - 1
    /\ \E i \in Ids : Funded(escrows[i]) /\ escrows[i].timestamp = StartTime

\* C9: withdraw(id) by any address other than the record's payer, and by
\* anyone on an absent record, reverts with NotSender at every time,
\* fulfilled or not, and changes neither a record nor a balance.
C9_WithdrawNotSender ==
    [][last'.op = "withdraw" => \A c \in Addr, i \in Ids :
         (withdraw(c, i) /\ (c # escrows[i].sender \/ escrows[i].sender = ZeroAddr))
         => (last' = Call("withdraw", "NotSender") /\ NothingMoved)]_vars

\* C9 witness: a withdraw has been refused with NotSender after the delay,
\* when every record was funded
C9_Witness ==
    /\ last = Call("withdraw", "NotSender")
    /\ now >= StartTime + WITHDRAW_DELAY
    /\ \A i \in Ids : Funded(escrows[i])

\* C10: fulfill(id) by any address other than the configured worker reverts
\* with NotWorker whatever the state of the record, and changes neither a
\* record nor a balance.
C10_FulfillNotWorker ==
    [][last'.op = "fulfill" => \A c \in Addr, i \in Ids :
         (fulfill(c, i) /\ c # worker)
         => (last' = Call("fulfill", "NotWorker") /\ NothingMoved)]_vars

\* C10 witness: a fulfill has been refused with NotWorker when every record
\* was funded and the worker had been replaced
C10_Witness ==
    /\ last = Call("fulfill", "NotWorker")
    /\ worker # 2
    /\ \A i \in Ids : Funded(escrows[i])

\* C11: once a record is fulfilled no operation changes it again: withdraw
\* by its payer reverts with AlreadyFulfilled at every time, createEscrow
\* with its id reverts with AlreadyExists, and every step leaves its payer,
\* value, createdAt and fulfilled flag as they are.
C11_FulfilledIsFinal ==
    [][\A i \in Ids : escrows[i].fulfilled =>
         /\ escrows'[i] = escrows[i]
         /\ last'.op = "withdraw" =>
              \A c \in Addr : (withdraw(c, i) /\ c = escrows[i].sender)
                 => (last' = Call("withdraw", "AlreadyFulfilled") /\ NothingMoved)
         /\ last'.op = "createEscrow" =>
              \A c \in Addr, a \in Amounts : createEscrow(c, i, a)
                 => (last' = Call("createEscrow", "AlreadyExists") /\ NothingMoved)]_vars

\* C11 witness: the payer's withdraw of a fulfilled record has been refused
\* after the delay
C11_Witness ==
    /\ last = Call("withdraw", "AlreadyFulfilled")
    /\ now >= StartTime + WITHDRAW_DELAY
    /\ \E i \in Ids : escrows[i].fulfilled /\ escrows[i].timestamp = StartTime

C20_RoleRotation ==
    [][/\ last'.op = "setWorker" => \A c \in Addr, w \in RoleWorkers :
              setWorker(c, w)
              => IF c # owner
                 THEN last' = Call("setWorker", "NotOwner") /\ NothingMoved
                 ELSE /\ last' = Call("setWorker", "ok")
                      /\ worker' = w
                      /\ UNCHANGED <<escrows, owner, held, balances>>
       /\ last'.op = "setOwner" => \A c \in Addr, o \in NewOwners :
              setOwner(c, o)
              => IF c # owner
                 THEN last' = Call("setOwner", "NotOwner") /\ NothingMoved
                 ELSE /\ last' = Call("setOwner", "ok")
                      /\ owner' = o
                      /\ UNCHANGED <<escrows, worker, held, balances>>
       /\ last'.op = "fulfill" => \A c \in Addr, i \in Ids :
              fulfill(c, i)
              => IF c # worker
                 THEN last' = Call("fulfill", "NotWorker") /\ NothingMoved
                 ELSE last'.result = "ok"
                      => balances'[worker] = balances[worker] + escrows[i].value
       /\ last'.op \in {"setWorker", "setOwner", "emergencyWithdraw"} =>
              \A c \in Addr :
                ( /\ last'.result = "ok"
                  /\ \/ emergencyWithdraw(c)
                     \/ \E w \in RoleWorkers : setWorker(c, w)
                     \/ \E o \in NewOwners : setOwner(c, o) )
                => c = owner]_vars

\* C20 witness: the worker set by setWorker has been paid by a fulfill,
\* under an owner set by setOwner
C20_Witness ==
    /\ last = Call("fulfill", "ok")
    /\ worker # 2
    /\ owner # 1
    /\ balances[worker] > 0
    /\ balances[2] = 0

\* C19: whenever a createEscrow call succeeds, the stored value equals the
\* amount sent (an amount that does not fit in the value field is
\* rejected), and the record created has a value greater than zero.
C19_StoredValueIsAmount ==
    [][last'.op = "createEscrow" => \A c \in Addr, i \in Ids, a \in WideAmounts :
         (createEscrow(c, i, a) /\ last'.result = "ok")
         => (escrows'[i].value = a /\ escrows'[i].value > 0)]_vars

(***************************************************************************)
(* Properties of the server, checked under SpecOrch                        *)
(***************************************************************************)
\* handler h answers in this step
Answers(h) == hs[h].pc # "done" /\ hs'[h].pc = "done"

\* the record of id is funded by user and not fulfilled: user may withdraw
\* it once the delay has elapsed
UserEscrowLive(id, user) ==
    /\ id # NoId
    /\ escrows[id].sender = user
    /\ ~escrows[id].fulfilled

\* C3: whatever requests arrive for an escrow id (valid, failing validation,
\* rejected as duplicates, failing with an exception), at most one handler
\* at a time is between its markEscrowProcessing and its own release, as
\* long as no lease is older than the 5-minute timeout (no more than the
\* timeout has passed since the server started).
C3_OneHandlerPastLock ==
    (DateNow - StartTime * 1000 <= PROCESSING_TIMEOUT_MS)
    => \A g, h \in Handlers :
         (hs[g].locked /\ hs[h].locked /\ hs[g].id = hs[h].id) => g = h

\* C4: a handler that found the quoted price of its quoteId, has read the
\* user's unfulfilled record and answers on reading its value, while that
\* value differs from the quoted price, answers with an error whose
\* canWithdraw is true and whose expectedValue is the quoted price, reports
\* no other actualValue than the on-chain value, and has submitted no
\* settlement transaction.
C4_PriceMismatchAnswer ==
    [][\A h \in Handlers :
         ( /\ Answers(h)
           /\ hs[h].pc = "read2"
           /\ hs[h].expected # Undef
           /\ UserEscrowLive(hs[h].id, hs[h].user)
           /\ escrows[hs[h].id].value # hs[h].expected )
         => ( /\ hs'[h].resp.kind = "error"
              /\ hs'[h].resp.canWithdraw
              /\ hs'[h].resp.expectedValue = hs[h].expected
              /\ hs'[h].resp.actualValue \in {escrows[hs[h].id].value, Undef}
              /\ hs'[h].tx = "none" )]_vars

\* C5: whenever a response carries canWithdraw = true, the record of the
\* request's escrowId has the request's userAddress as payer and is not
\* fulfilled at the time of the response; stated for the responses of the
\* security verification (route.ts:495-506).
C5_CanWithdrawIsSafe ==
    [][\A h \in Handlers :
         ( /\ Answers(h)
           /\ hs[h].site = "security"
           /\ hs'[h].resp.kind = "error"
           /\ hs'[h].resp.canWithdraw )
         => UserEscrowLive(hs[h].id, hs[h].user)]_vars

\* C6: a response carries canWithdraw = false only after a read showed the
\* record absent or fulfilled; in particular an error response given after
\* the handler has read the user's funded, unfulfilled record, while that
\* record exists, carries canWithdraw = true.
C6_NoFalseWithoutConfirmation ==
    [][\A h \in Handlers :
         ( /\ Answers(h)
           /\ hs[h].pc = "read2"
           /\ hs'[h].resp.kind = "error"
           /\ UserEscrowLive(hs[h].id, hs[h].user) )
         => hs'[h].resp.canWithdraw]_vars

\* C12: a lease that has not expired is removed from the map only by the
\* return of a handler that acquired it and has not released it yet: a
\* handler releases once, and never a lease acquired by another handler.
C12_ReleaseOwnLeaseOnce ==
    [][\A i \in ReqIds :
         ( /\ leases[i] # Undef
           /\ leases'[i] = Undef
           /\ DateNow - leases[i] <= PROCESSING_TIMEOUT_MS )
         => \E h \in Handlers :
              hs[h].locked /\ hs[h].id = i /\ ~hs'[h].locked]_vars

\* C13: a request rejected as a duplicate returns without changing the
\* lease of the request in flight or any quote: the step in which the
\* rejected handler answers leaves the leases and the quotes as they were.
C13_DuplicateLeavesLease ==
    [][\A h \in Handlers :
         (Answers(h) /\ hs[h].site = "dup")
         => (leases' = leases /\ quotes' = quotes)]_vars

\* C14: a handler that verifies an escrow already fulfilled on-chain, with
\* the request's userAddress as payer, after the funding receipt was
\* confirmed (on the normal path with the quoted price found, or on the
\* duplicate-request path), answers with the success response and has
\* submitted no settlement transaction.
C14_FulfilledAnswersSuccess ==
    [][\A h \in Handlers :
         ( /\ Answers(h)
           /\ hs[h].pc = "read1"
           /\ hs[h].site \in {"security", "dup"}
           /\ hs[h].id # NoId
           /\ escrows[hs[h].id].sender = hs[h].user
           /\ escrows[hs[h].id].fulfilled )
         => (hs'[h].resp.kind = "success" /\ hs'[h].tx = "none")]_vars

\* C15: a handler whose quoteId was not found in the cache (never issued or
\* expired), whose funding receipt was confirmed and whose first read
\* showed the user's unfulfilled record, answers, while that record
\* exists, with an error whose canWithdraw is true.
C15_LostQuoteCanWithdraw ==
    [][\A h \in Handlers :
         ( /\ Answers(h)
           /\ hs[h].site = "expired"
           /\ hs[h].pc = "read2"
           /\ UserEscrowLive(hs[h].id, hs[h].user) )
         => (hs'[h].resp.kind = "error" /\ hs'[h].resp.canWithdraw)]_vars

\* C16: in the polling loop of the already-known branch, a check of the
\* escrow made while the record of the request's payer is fulfilled
\* on-chain ends the loop with the success response.
C16_PollSeesFulfilled ==
    [][\A h \in Handlers :
         ( /\ hs[h].pc = "read1"
           /\ hs[h].site = "poll"
           /\ hs'[h].pc # "read1"
           /\ escrows[hs[h].id].sender = hs[h].user
           /\ escrows[hs[h].id].fulfilled )
         => (Answers(h) /\ hs'[h].resp.kind = "success")]_vars

(***************************************************************************)
(* Properties of the quote cache, checked under SpecQuote                  *)
(***************************************************************************)
\* C17: a getPriceQuote(quoteId) that reads the cache after the
\* storePriceQuote of quoteId has returned, no later than 5 minutes after
\* the quote's timestamp, returns the stored priceWei.
C17_LookupWithinTtl ==
    [][\A c \in CacheCalls, q \in CacheIds :
         ( /\ calls[c].pc = "idle"
           /\ calls'[c].op = "get"
           /\ calls'[c].quoteId = q
           /\ issued[q] # NoQuote
           /\ DateNow - issued[q].timestamp <= QUOTE_EXPIRY_MS )
         => calls'[c].result = issued[q].priceWei]_vars

\* C21: a request that fails input validation is answered at once, without
\* a read of the chain, and the step leaves every processing lease as it
\* was, also the lease of a request in flight for the same escrowId.
C21_InvalidTouchesNothing ==
    [][\A h \in Handlers :
         (hs[h].pc = "idle" /\ hs'[h].pc # "idle")
         => \A body \in Requests :
              (Post(h, body) /\ ~validateRequestInput(body))
              => (Answers(h) /\ leases' = leases)]_vars

(***************************************************************************)
(* Properties of the RPC failover, checked under SpecRpc                   *)
(***************************************************************************)
\* the selection order: endpoint a goes before endpoint b
GoesBefore(H, a, b) ==
    \/ H[a].lastSuccess # Undef /\ H[b].lastSuccess = Undef
    \/ H[a].lastSuccess # Undef /\ H[b].lastSuccess # Undef
         /\ H[a].lastSuccess > H[b].lastSuccess
    \/ H[a].lastSuccess = Undef /\ H[b].lastSuccess = Undef
         /\ H[a].consecutiveFailures < H[b].consecutiveFailures

\* C22: a call orders the whole pool by the selection order (most recently
\* successful first, then fewest consecutive failures), whatever health is
\* recorded; a probe that passes makes the call return the probed endpoint,
\* and every endpoint ordered before it has failed in this call; the call
\* throws only when every endpoint of the pool has been probed and has
\* failed in this call, and its error lists each of them with a reason.
C22_FirstWorkingEndpoint ==
    [][\A c \in RpcCalls :
         /\ (rpcs[c].pc = "idle" /\ rpcs'[c].pc = "probe")
            => LET srt == rpcs'[c].sorted IN
               /\ Len(srt) = Len(RpcPool)
               /\ {srt[k] : k \in DOMAIN srt} = RpcUrls
               /\ \A i, j \in DOMAIN srt :
                    i < j => ~GoesBefore(rpcHealthCache, srt[j], srt[i])
         /\ (rpcs[c].pc = "probe" /\ rpcs'[c] # rpcs[c])
            => LET r == rpcs[c]
                   url == r.sorted[Len(r.errors) + 1] IN
               IF failedProbes'[url] = 0
               THEN /\ rpcs'[c].pc = "returned"
                    /\ rpcs'[c].url = url
                    /\ \A k \in DOMAIN r.errors : r.errors[k].url = r.sorted[k]
               ELSE /\ rpcs'[c].errors = Append(r.errors, [url |-> url, error |-> "Health check failed"])
                    /\ rpcs'[c].pc = IF Len(r.errors) + 1 = Len(RpcPool) THEN "threw" ELSE "probe"
                    /\ rpcs'[c].pc = "threw"
                       => \A k \in DOMAIN rpcs'[c].errors :
                            rpcs'[c].errors[k].url = r.sorted[k]]_vars

\* C22 witness: a call has returned the third endpoint of an order that
\* differs from the pool's, after the two before it failed
C22_Witness ==
    \E c \in RpcCalls :
      /\ rpcs[c].pc = "returned"
      /\ Len(rpcs[c].errors) = 2
      /\ rpcs[c].sorted # RpcPool
      /\ rpcs[c].url = rpcs[c].sorted[3]

\* C23: a probe changes only the health of the probed endpoint: a passing
\* probe sets consecutiveFailures to 0 and lastSuccess to the current time,
\* a failing probe adds 1 to consecutiveFailures and keeps lastSuccess; no
\* other step changes any health; consecutiveFailures is always the number
\* of failed probes since the endpoint's last passing probe.
C23_ProbeUpdatesOwnHealth ==
    [][/\ \A u \in RpcUrls : rpcHealthCache'[u].consecutiveFailures = failedProbes'[u]
       /\ (\A c \in RpcCalls : rpcs[c].pc = "probe" => rpcs'[c] = rpcs[c])
          => rpcHealthCache' = rpcHealthCache
       /\ \A c \in RpcCalls :
            (rpcs[c].pc = "probe" /\ rpcs'[c] # rpcs[c])
            => LET url == rpcs[c].sorted[Len(rpcs[c].errors) + 1]
                   health == rpcHealthCache[url] IN
               /\ \A u \in RpcUrls \ {url} : rpcHealthCache'[u] = rpcHealthCache[u]
               /\ rpcHealthCache'[url] =
                    IF rpcs'[c].pc = "returned"
                    THEN [lastSuccess |-> DateNow, consecutiveFailures |-> 0]
                    ELSE [lastSuccess |-> health.lastSuccess,
                          consecutiveFailures |-> health.consecutiveFailures + 1]]_vars

\* C23 witness: an endpoint has failed twice since it passed a probe, and
\* another one, ordered after the first success of every call so far, has
\* never been probed
C23_Witness ==
    /\ \E u \in RpcUrls : /\ rpcHealthCache[u].consecutiveFailures = 2
                           /\ rpcHealthCache[u].lastSuccess # Undef
    /\ \E v \in RpcUrls : rpcHealthCache[v] = NoHealth
    /\ \E c \in RpcCalls : rpcs[c].pc = "returned"

(***************************************************************************)
(* Properties of verifyEscrowSecurity, checked under SpecVerify            *)
(***************************************************************************)
\* the five conditions on a record
RecordOk(e, userAddress, expectedValue) ==
    /\ e.sender # ZeroAddr
    /\ toLowerCase(e.sender) = toLowerCase(userAddress)
    /\ ~e.fulfilled
    /\ e.value > 0
    /\ e.value = expectedValue

\* C24 as stated: the call returns valid = true if and only if the record
\* exists, its payer is userAddress in any letter case, it is not fulfilled,
\* its value is greater than 0 and equals expectedValue.
C24_ValidIffRecordOk ==
    [][(verifs.pc # "done" /\ verifs'.pc = "done")
       => (verifs'.result.valid
           <=> RecordOk(escrows[verifs'.escrowId], verifs'.userAddress,
                        verifs'.expectedValue))]_vars

\* C24 amended: the call reads the record twice and never writes to the
\* ledger.  It reports the first failure in this order: the first read
\* fails, the record read has no payer, its payer is not userAddress (in any
\* letter case), it is fulfilled, its value is 0, the second read fails, the
\* value read second differs from expectedValue; valid is true exactly when
\* there is none.  When both reads succeed and return the same record,
\* valid is true if and only if that record meets the five conditions.
C24_FirstFailingCheck ==
    [][/\ verifs' # verifs => UNCHANGED ledgerVars
       /\ (verifs.pc # "done" /\ verifs'.pc = "done")
          => LET v == verifs'
                 up1 == v.read1[1]
                 e1 == v.read1[2]
                 second == v.read2 # <<>>
                 error ==
                   IF ~up1 THEN "Failed to read escrow data"
                   ELSE IF e1.sender = ZeroAddr THEN "Escrow does not exist"
                   ELSE IF toLowerCase(e1.sender) # toLowerCase(v.userAddress)
                        THEN "Escrow sender mismatch"
                   ELSE IF e1.fulfilled THEN "Escrow already fulfilled"
                   ELSE IF e1.value = 0 THEN "Escrow has zero value"
                   ELSE IF ~second THEN "no second read"
                   ELSE IF ~v.read2[1] THEN "Failed to verify escrow balance"
                   ELSE IF v.read2[2].value # v.expectedValue THEN "Price mismatch"
                   ELSE "ok" IN
             /\ v.result.error = error
             /\ v.result.valid <=> error = "ok"
             /\ (up1 /\ second /\ v.read2 = v.read1)
                => (v.result.valid <=> RecordOk(e1, v.userAddress, v.expectedValue))]_vars

\* C24 witness: the call has returned valid = true for a userAddress written
\* in other letter case than the payer of the record
C24_Witness ==
    /\ verifs.pc = "done"
    /\ verifs.result.valid
    /\ verifs.userAddress = 3 + CaseOffset
    /\ escrows[verifs.escrowId].sender = 3

\* C25: whenever the settlement transaction of a handler executes fulfill
\* on-chain, the value of the record at that moment is the quoted price the
\* handler verified.
C25_FulfillAtQuotedPrice ==
    [][\A h \in Handlers :
         (hs[h].tx = "pending" /\ hs'[h].tx = "ok")
         => escrows[hs[h].id].value = hs[h].expected]_vars


C27_UnexpiredQuoteKept ==
    \A q \in CacheIds :
        (issued[q] # NoQuote /\ DateNow - issued[q].timestamp <= QUOTE_EXPIRY_MS)
        => quotes[q] = issued[q]

\* C28: under fair scheduling of the handlers and for every behaviour of the
\* chain, a handler that holds the processing lock eventually has returned its
\* response, with its lease released.
C28_LockedHandlerReturns ==
    \A h \in Handlers : hs[h].locked ~> (hs[h].pc = "done" /\ ~hs[h].locked)

\* C29: a record changes only along three edges.  Empty to Funded by a
\* successful createEscrow on its id, with payer = caller, value = the amount
\* sent, createdAt = now and fulfilled = FALSE; Funded to Fulfilled by the
\* worker's fulfill on its id, nothing but the flag changing; Funded to Empty
\* by the payer's withdraw on its id once the delay has passed.  A call on one
\* id leaves the record of every other id as it was, and an Empty record,
\* after a withdrawal as at the start, is funded by every caller that sends an
\* amount greater than zero.
C29_RecordEdges ==
    [][/\ \A i \in Ids :
            escrows'[i] # escrows[i]
            => \/ /\ escrows[i] = EmptyEscrow
                  /\ last' = Call("createEscrow", "ok")
                  /\ \E c \in Addr, a \in Amounts \cup WideAmounts :
                        /\ createEscrow(c, i, a)
                        /\ escrows'[i] = [sender |-> c, value |-> a,
                                          timestamp |-> now, fulfilled |-> FALSE]
               \/ /\ Funded(escrows[i])
                  /\ last' = Call("fulfill", "ok")
                  /\ fulfill(worker, i)
                  /\ escrows'[i] = [escrows[i] EXCEPT !.fulfilled = TRUE]
               \/ /\ Funded(escrows[i])
                  /\ last' = Call("withdraw", "ok")
                  /\ withdraw(escrows[i].sender, i)
                  /\ now >= escrows[i].timestamp + WITHDRAW_DELAY
                  /\ escrows'[i] = EmptyEscrow
       /\ \A i, j \in Ids :
            i # j => (escrows'[i] = escrows[i] \/ escrows'[j] = escrows[j])
       /\ \A c \in Addr, i \in Ids, a \in Amounts \cup WideAmounts :
            (createEscrow(c, i, a) /\ escrows[i] = EmptyEscrow /\ a > 0)
            => last' = Call("createEscrow", "ok")]_vars

\* the sum of value over the records of S that have a payer and are not
\* fulfilled
RECURSIVE SumFunded(_)
SumFunded(S) ==
    IF S = {} THEN 0
    ELSE LET i == CHOOSE x \in S : TRUE IN
         (IF Funded(escrows[i]) THEN escrows[i].value ELSE 0)
         + SumFunded(S \ {i})

\* C30: without emergencyWithdraw and with amounts that fit the value field,
\* the ledger's balance is in every state the sum of value over the records
\* with a payer and fulfilled = FALSE; and whenever an account receives money
\* it receives the value of one such record, which leaves the sum in the same
\* step: the worker by fulfill, the record becoming fulfilled, or the record's
\* payer by withdraw, the record becoming empty, and no other account receives
\* anything.
C30_BalanceIsFundedSum ==
    [][/\ held' = SumFunded(Ids)'
       /\ \A x \in Addr :
            balances'[x] > balances[x]
            => /\ \A y \in Addr \ {x} : balances'[y] = balances[y]
               /\ \E i \in Ids :
                    /\ Funded(escrows[i])
                    /\ balances'[x] = balances[x] + escrows[i].value
                    /\ held' = held - escrows[i].value
                    /\ \A j \in Ids \ {i} : escrows'[j] = escrows[j]
                    /\ \/ /\ last' = Call("fulfill", "ok")
                          /\ x = worker
                          /\ escrows'[i] = [escrows[i] EXCEPT !.fulfilled = TRUE]
                       \/ /\ last' = Call("withdraw", "ok")
                          /\ x = escrows[i].sender
                          /\ escrows'[i] = EmptyEscrow]_vars

\* one record has been paid to the worker and another one is still funded
C30_Witness ==
    /\ \E i, j \in Ids : escrows[i].fulfilled /\ Funded(escrows[j])
    /\ balances[worker] > 0
    /\ held > 0
    /\ last = Call("fulfill", "ok")

====
